---- MODULE Spec2Model ----
(***************************************************************************)
(* Model of src/main.py: the arithmetic-sequence calculator               *)
(* (calculate_arithmetic_sequence, format_sequence, verify_sequence and   *)
(* the command-line driver main).                                         *)
(*                                                                         *)
(* Python's float is the IEEE-754 binary64 format.  Its values are        *)
(* modelled exactly: a finite float is sign * m * 2^e with the magnitude  *)
(* m an arbitrary-precision natural number kept as a little-endian        *)
(* sequence of base-2^15 limbs, and every arithmetic operation computes   *)
(* the exact result and rounds it to 53 significant bits, ties to even,   *)
(* overflowing to infinity at 2^1024 and losing precision below 2^-1074.  *)
(***************************************************************************)
EXTENDS Integers, Sequences, FiniteSets, TLC

(***************************************************************************)
(* Arbitrary-precision naturals: <<>> is 0, no high zero limbs.           *)
(***************************************************************************)
LimbBits == 15
BASE == 2^LimbBits

Max(a, b) == IF a >= b THEN a ELSE b
Min(a, b) == IF a <= b THEN a ELSE b

RECURSIVE NNorm(_)
NNorm(a) ==
  IF a = <<>> THEN <<>>
  ELSE IF a[Len(a)] = 0 THEN NNorm(SubSeq(a, 1, Len(a) - 1))
  ELSE a

RECURSIVE NAddC(_, _, _)
NAddC(a, b, c) ==
  IF a = <<>> /\ b = <<>> THEN (IF c = 0 THEN <<>> ELSE <<c>>)
  ELSE LET x == IF a = <<>> THEN 0 ELSE Head(a)
           y == IF b = <<>> THEN 0 ELSE Head(b)
           s == x + y + c
       IN  <<s % BASE>> \o NAddC(IF a = <<>> THEN <<>> ELSE Tail(a),
                                 IF b = <<>> THEN <<>> ELSE Tail(b),
                                 s \div BASE)

NAdd(a, b) == NAddC(a, b, 0)

\* a - b for a >= b, limb by limb with a borrow
RECURSIVE NSubB(_, _, _)
NSubB(a, b, c) ==
  IF a = <<>> THEN <<>>
  ELSE LET y == IF b = <<>> THEN 0 ELSE Head(b)
           d == Head(a) - y - c
       IN  <<d % BASE>> \o NSubB(Tail(a),
                                 IF b = <<>> THEN <<>> ELSE Tail(b),
                                 IF d < 0 THEN 1 ELSE 0)

NSub(a, b) == NNorm(NSubB(a, b, 0))

\* -1, 0, 1 as a < b, a = b, a > b (both normalised)
RECURSIVE NCmpFrom(_, _, _)
NCmpFrom(a, b, i) ==
  IF i = 0 THEN 0
  ELSE IF a[i] < b[i] THEN -1
  ELSE IF a[i] > b[i] THEN 1
  ELSE NCmpFrom(a, b, i - 1)

NCmp(a, b) ==
  IF Len(a) < Len(b) THEN -1
  ELSE IF Len(a) > Len(b) THEN 1
  ELSE NCmpFrom(a, b, Len(a))

\* a * k + c for 0 <= k <= BASE
RECURSIVE NMulC(_, _, _)
NMulC(a, k, c) ==
  IF a = <<>> THEN (IF c = 0 THEN <<>> ELSE <<c>>)
  ELSE LET p == Head(a) * k + c
       IN  <<p % BASE>> \o NMulC(Tail(a), k, p \div BASE)

NMulSmall(a, k) == IF k = 0 THEN <<>> ELSE NMulC(a, k, 0)

\* <<quotient limbs (not normalised), remainder>> of a by 1 <= k <= BASE,
\* from the most significant limb down
RECURSIVE NDivFrom(_, _, _, _)
NDivFrom(a, k, i, r) ==
  IF i = 0 THEN <<<<>>, r>>
  ELSE LET cur == r * BASE + a[i]
           rest == NDivFrom(a, k, i - 1, cur % k)
       IN  <<Append(rest[1], cur \div k), rest[2]>>

DivResult(qr) == [q |-> NNorm(qr[1]), r |-> qr[2]]

NDivSmall(a, k) == DivResult(NDivFrom(a, k, Len(a), 0))

RECURSIVE SmallBitLen(_)
SmallBitLen(x) == IF x = 0 THEN 0 ELSE 1 + SmallBitLen(x \div 2)

NBitLen(a) ==
  IF a = <<>> THEN 0 ELSE (Len(a) - 1) * LimbBits + SmallBitLen(a[Len(a)])

NIsOdd(a) == a # <<>> /\ a[1] % 2 = 1

\* a * 2^s
NShl(a, s) ==
  IF a = <<>> THEN <<>>
  ELSE NMulSmall([i \in 1..(s \div LimbBits) |-> 0] \o a, 2^(s % LimbBits))

\* floor(a / 2^s), and whether any 1 bit was shifted out
ShrResult(a, drop, d) ==
  [q |-> d.q, lost |-> d.r # 0 \/ \E i \in 1..drop : a[i] # 0]

ShrLimbs(a, drop, bits) ==
  ShrResult(a, drop, NDivSmall(SubSeq(a, drop + 1, Len(a)), 2^bits))

NShr(a, s) == ShrLimbs(a, Min(s \div LimbBits, Len(a)), s % LimbBits)

RECURSIVE SmallTrailingZeros(_)
SmallTrailingZeros(x) == IF x % 2 = 1 THEN 0 ELSE 1 + SmallTrailingZeros(x \div 2)

\* number of trailing zero bits of a # 0
RECURSIVE NTrailingZeros(_, _)
NTrailingZeros(a, i) ==
  IF a[i] = 0 THEN LimbBits + NTrailingZeros(a, i + 1)
  ELSE SmallTrailingZeros(a[i])

(***************************************************************************)
(* Python float: IEEE-754 binary64.                                       *)
(*   [k |-> "fin", s, m, e]  is (-1)^s * m * 2^e, m odd (or m = 0, e = 0) *)
(*   [k |-> "inf", s]        is +-infinity,  [k |-> "nan"] is a NaN.      *)
(* Intermediate values are passed as operator arguments, which TLC        *)
(* evaluates once.                                                        *)
(***************************************************************************)
MantBits == 53
MaxExp == 1024
MinExp == -1074

FZero(s) == [k |-> "fin", s |-> s, m |-> <<>>, e |-> 0]
FInf(s) == [k |-> "inf", s |-> s, m |-> <<>>, e |-> 0]
FNaN == [k |-> "nan", s |-> 0, m |-> <<>>, e |-> 0]

IsFinite(x) == x.k = "fin"
IsZero(x) == x.k = "fin" /\ x.m = <<>>

\* (-1)^s * M * 2^e with its z trailing zero bits moved to the exponent
Stripped(s, M, e, z) == [k |-> "fin", s |-> s, m |-> NShr(M, z).q, e |-> e + z]

\* the float of value (-1)^s * M * 2^e, M of at most 53 bits: infinity from
\* 2^1024 on
Canon(s, M, e) ==
  IF M = <<>> THEN FZero(s)
  ELSE IF NBitLen(M) + e > MaxExp THEN FInf(s)
  ELSE Stripped(s, M, e, NTrailingZeros(M, 1))

\* Q, or Q + 1 when the bits dropped after Q are more than half a unit, or
\* exactly half and Q is odd (ties to even)
RoundTie(Q, half, sticky) ==
  IF half /\ (sticky \/ NIsOdd(Q)) THEN NAdd(Q, <<1>>) ELSE Q

RoundPick(sh, inexact) ==
  RoundTie(NShr(sh.q, 1).q, NIsOdd(sh.q), sh.lost \/ inexact)

\* M / 2^r rounded to an integer, r >= 1
RoundedMant(M, r, inexact) == RoundPick(NShr(M, r - 1), inexact)

\* t is the exponent of the last bit kept
RoundAt(s, M, e, inexact, t) ==
  Canon(s, IF t <= e THEN M ELSE RoundedMant(M, t - e, inexact), Max(t, e))

\* Round to nearest, ties to even: the float nearest to (-1)^s * (M + f) * 2^e
\* where 0 < f < 1 if inexact and f = 0 otherwise.
Round(s, M, e, inexact) ==
  RoundAt(s, M, e, inexact, Max(e + NBitLen(M) - MantBits, MinExp))

\* float(i) for a Python int i (exact for |i| < 2^31)
IntLimbs(a) == NNorm(<<a % BASE, (a \div BASE) % BASE, a \div (BASE * BASE)>>)

FromInt(i) == Canon(IF i < 0 THEN 1 ELSE 0, IntLimbs(IF i < 0 THEN -i ELSE i), 0)

\* A Python int is a sign and a magnitude of any size, as in CPython's
\* PyLongObject.  PyLong(i) is the int i, AsInt its inverse for |n| < BASE^2.
PyLong(i) == [s |-> IF i < 0 THEN 1 ELSE 0, a |-> IntLimbs(IF i < 0 THEN -i ELSE i)]

AsInt(n) ==
  (IF n.s = 1 THEN -1 ELSE 1)
  * ((IF Len(n.a) >= 1 THEN n.a[1] ELSE 0) + (IF Len(n.a) >= 2 THEN n.a[2] * BASE ELSE 0))

\* the conversion of an int operand of a float operation (PyLong_AsDouble):
\* the nearest float, and OverflowError where that is 2^1024 or more
FloatOfLong(n) == Round(n.s, n.a, 0, FALSE)

FNeg(x) == IF x.k = "nan" THEN x ELSE [x EXCEPT !.s = 1 - x.s]

\* -1, 0, 1: the order of the magnitudes of two finite floats
MagCmpAt(x, px, y, py, e0) ==
  IF px < py THEN -1
  ELSE IF px > py THEN 1
  ELSE NCmp(NShl(x.m, x.e - e0), NShl(y.m, y.e - e0))

MagCmp(x, y) ==
  IF x.m = <<>> \/ y.m = <<>>
  THEN (IF x.m = y.m THEN 0 ELSE IF x.m = <<>> THEN -1 ELSE 1)
  ELSE MagCmpAt(x, x.e + NBitLen(x.m), y, y.e + NBitLen(y.m), Min(x.e, y.e))

\* sx * A * 2^e0 + sy * B * 2^e0, rounded; c is the order of A and B
AddAligned(sx, A, sy, B, e0, c) ==
  Round(IF sx = sy \/ c > 0 THEN sx ELSE IF c = 0 THEN 0 ELSE sy,
        IF sx = sy THEN NAdd(A, B) ELSE IF c >= 0 THEN NSub(A, B) ELSE NSub(B, A),
        e0, FALSE)

AddMagnitudes(sx, A, sy, B, e0) == AddAligned(sx, A, sy, B, e0, NCmp(A, B))

AddFinite(x, y, e0) ==
  AddMagnitudes(x.s, NShl(x.m, x.e - e0), y.s, NShl(y.m, y.e - e0), e0)

\* x + y
FAdd(x, y) ==
  IF x.k = "nan" \/ y.k = "nan" THEN FNaN
  ELSE IF x.k = "inf" /\ y.k = "inf" THEN (IF x.s = y.s THEN x ELSE FNaN)
  ELSE IF x.k = "inf" THEN x
  ELSE IF y.k = "inf" THEN y
  ELSE IF x.m = <<>> /\ y.m = <<>>
       THEN FZero(IF x.s = 1 /\ y.s = 1 THEN 1 ELSE 0)
  ELSE IF x.m = <<>> THEN y
  ELSE IF y.m = <<>> THEN x
  ELSE AddFinite(x, y, Min(x.e, y.e))

\* x - y
FSub(x, y) == FAdd(x, FNeg(y))

\* x * i for a Python int 0 <= i < BASE (the int is converted exactly)
FMulInt(x, i) ==
  IF x.k = "nan" THEN FNaN
  ELSE IF x.k = "inf" THEN (IF i = 0 THEN FNaN ELSE x)
  ELSE Round(x.s, NMulSmall(x.m, i), x.e, FALSE)

\* x / i for a Python int 1 <= i < BASE: the quotient is computed to
\* DivGuardBits more bits than x has, the remainder says whether it is exact
DivGuardBits == 5 * LimbBits

DivRound(s, d, e) == Round(s, d.q, e, d.r # 0)

FDivInt(x, i) ==
  IF x.k # "fin" THEN x
  ELSE DivRound(x.s, NDivSmall(NShl(x.m, DivGuardBits), i), x.e - DivGuardBits)

\* abs(x) < y for a finite y > 0 (a comparison with a NaN is false)
FAbsLess(x, y) == x.k = "fin" /\ MagCmp(x, y) < 0

\* abs(x) >= abs(y), C's fabs(x) >= fabs(y)
FAbsGE(x, y) ==
  IF x.k = "nan" \/ y.k = "nan" THEN FALSE
  ELSE IF x.k = "inf" THEN TRUE
  ELSE IF y.k = "inf" THEN FALSE
  ELSE MagCmp(x, y) >= 0

\* x % 1: the fractional part, with the sign of the divisor 1
FracPart(x, frac) ==
  Round(0, IF x.s = 0 THEN frac ELSE NSub(NShl(<<1>>, -x.e), frac), x.e, FALSE)

FMod1(x) ==
  IF x.k # "fin" THEN FNaN
  ELSE IF x.m = <<>> \/ x.e >= 0 THEN FZero(0)
  ELSE FracPart(x, NSub(x.m, NShl(NShr(x.m, -x.e).q, -x.e)))

(***************************************************************************)
(* The built-in sum().  CPython up to 3.11 adds the floats left to right; *)
(* CPython 3.12 and later adds them with Neumaier's compensation.  Both   *)
(* start from the int 0, so the first addition is 0 + sequence[0], and    *)
(* sum([]) is the int 0.                                                  *)
(***************************************************************************)
Builds == {"plain_sum", "compensated_sum"}

RECURSIVE SumPlain(_, _, _)
SumPlain(seq, i, f_result) ==
  IF i > Len(seq) THEN f_result
  ELSE SumPlain(seq, i + 1, FAdd(f_result, seq[i]))

\* if (fabs(f_result) >= fabs(x)) c += (f_result - t) + x;
\* else c += (x - t) + f_result;
Compensation(f_result, x, t, c) ==
  FAdd(c, IF FAbsGE(f_result, x) THEN FAdd(FSub(f_result, t), x)
          ELSE FAdd(FSub(x, t), f_result))

RECURSIVE SumCompensated(_, _, _, _)
RECURSIVE SumCompensatedStep(_, _, _, _, _)
SumCompensatedStep(seq, i, f_result, c, t) ==
  SumCompensated(seq, i + 1, t, Compensation(f_result, seq[i], t, c))

SumCompensated(seq, i, f_result, c) ==
  IF i > Len(seq)
  THEN (IF ~IsZero(c) /\ IsFinite(c) THEN FAdd(f_result, c) ELSE f_result)
  ELSE SumCompensatedStep(seq, i, f_result, c, FAdd(f_result, seq[i]))

SumFloats(b, seq, first) ==
  IF b = "plain_sum" THEN SumPlain(seq, 2, first)
  ELSE SumCompensated(seq, 2, first, FZero(0))

PySum(b, seq) ==
  IF seq = <<>> THEN FZero(0) ELSE SumFloats(b, seq, FAdd(FZero(0), seq[1]))

(***************************************************************************)
(* calculate_arithmetic_sequence                                           *)
(***************************************************************************)
Raise(type, message) == [raised |-> type, message |-> message, value |-> <<>>]
Return(v) == [raised |-> "", message |-> "", value |-> v]

\* Mutant of first_term: the sum 0 + 1 + ... + n taken for 0 + 1 + ... + (n - 1),
\* (total_sum - common_diff * n * (n + 1) / 2) / n
first_term_to_n(n, total_sum, common_diff) ==
  FDivInt(FSub(total_sum, FDivInt(FMulInt(FMulInt(common_diff, n), n + 1), 2)), n)

\* (total_sum - common_diff * n * (n - 1) / 2) / n
first_term(n, total_sum, common_diff) ==
  FDivInt(FSub(total_sum, FDivInt(FMulInt(FMulInt(common_diff, n), n - 1), 2)), n)

\* Mutant of terms: the common difference left out, first_term + i
terms_step_one(n, first, common_diff) ==
  [j \in 1..n |-> FAdd(first, FromInt(j - 1))]

\* Mutant of terms: the terms counted from 1, first_term + (i + 1) * common_diff
terms_from_one(n, first, common_diff) ==
  [j \in 1..n |-> FAdd(first, FMulInt(common_diff, j))]

\* [first_term + i * common_diff for i in range(n)]
terms(n, first, common_diff) ==
  [j \in 1..n |-> FAdd(first, FMulInt(common_diff, j - 1))]

\* Mutant of calculate_arithmetic_sequence: the guard written n < 0, so that
\* n = 0 reaches the division by n of line 22
calculate_nonnegative(n, total_sum, common_diff) ==
  IF n.s = 1 /\ n.a # <<>>
  THEN Raise("ValueError", "Number of elements must be positive")
  ELSE IF n.a = <<>>
  THEN Raise("ZeroDivisionError", "float division by zero")
  ELSE IF FloatOfLong(n).k = "inf"
  THEN Raise("OverflowError", "int too large to convert to float")
  ELSE Return(terms(AsInt(n), first_term(AsInt(n), total_sum, common_diff), common_diff))

\* n is a Python int.  common_diff * n, the first operation of line 22,
\* converts n to a float.
calculate_arithmetic_sequence(n, total_sum, common_diff) ==
  IF n.s = 1 \/ n.a = <<>>
  THEN Raise("ValueError", "Number of elements must be positive")
  ELSE IF FloatOfLong(n).k = "inf"
  THEN Raise("OverflowError", "int too large to convert to float")
  ELSE Return(terms(AsInt(n), first_term(AsInt(n), total_sum, common_diff), common_diff))

(***************************************************************************)
(* verify_sequence                                                         *)
(***************************************************************************)
\* the float 1e-9 = 0x1.12e0be826d695p-30
Tolerance == [k |-> "fin", s |-> 0, m |-> <<22165, 20557, 14383, 137>>, e |-> -82]

\* abs(a - b) < 1e-9
Close(a, b) == FAbsLess(FSub(a, b), Tolerance)

\* Mutant of differences: the operands exchanged, sequence[i] - sequence[i + 1]
differences_reversed(sequence) ==
  [i \in 1..(Len(sequence) - 1) |-> FSub(sequence[i], sequence[i + 1])]

\* [sequence[i + 1] - sequence[i] for i in range(len(sequence) - 1)]
differences(sequence) ==
  [i \in 1..(Len(sequence) - 1) |-> FSub(sequence[i + 1], sequence[i])]

\* all(abs(d - expected_diff) < 1e-9 for d in differences)
diff_matches(diffs, expected_diff) ==
  \A i \in 1..Len(diffs) : Close(diffs[i], expected_diff)

\* Mutant of verify_sequence: the two checks joined by "or"
verify_sum_or_diffs(b, sequence, expected_sum, expected_diff) ==
  IF Len(sequence) < 2
  THEN Close(PySum(b, sequence), expected_sum)
  ELSE \/ Close(PySum(b, sequence), expected_sum)
       \/ diff_matches(differences(sequence), expected_diff)

verify_sequence(b, sequence, expected_sum, expected_diff) ==
  IF Len(sequence) < 2
  THEN Close(PySum(b, sequence), expected_sum)
  ELSE /\ Close(PySum(b, sequence), expected_sum)
       /\ diff_matches(differences(sequence), expected_diff)

(***************************************************************************)
(* format_sequence.  A str is a sequence of pieces; the digits, signs and *)
(* separators that formatting produces are one-character pieces.          *)
(***************************************************************************)
DigitChars == <<"0", "1", "2", "3", "4", "5", "6", "7", "8", "9">>

\* the decimal digits of a small natural number, most significant first
RECURSIVE SmallDec(_)
SmallDec(x) ==
  IF x < 10 THEN <<DigitChars[x + 1]>>
  ELSE Append(SmallDec(x \div 10), DigitChars[(x % 10) + 1])

\* the decimal digits of a > 0, produced four at a time
RECURSIVE NToDec(_)
RECURSIVE NToDecStep(_)
NToDecStep(d) == NToDec(d.q) \o SubSeq(SmallDec(10^4 + d.r), 2, 5)

NToDec(a) ==
  IF Len(a) = 1 THEN SmallDec(a[1]) ELSE NToDecStep(NDivSmall(a, 10^4))

Minus(s) == IF s = 1 THEN <<"-">> ELSE <<>>

\* str(i) for the int of magnitude a and sign s
IntStr(s, a) == IF a = <<>> THEN <<"0">> ELSE Minus(s) \o NToDec(a)

\* int(x)
PyInt(x) ==
  IF x.k = "inf" THEN Raise("OverflowError", "cannot convert float infinity to integer")
  ELSE IF x.k = "nan" THEN Raise("ValueError", "cannot convert float NaN to integer")
  ELSE Return([s |-> x.s,
               a |-> IF x.e >= 0 THEN NShl(x.m, x.e) ELSE NShr(x.m, -x.e).q])

\* f"{x:.4f}": the decimal nearest to x with 4 fractional digits, ties to even
FracDigits == 4

PointAt(padded, cut) ==
  SubSeq(padded, 1, cut) \o <<".">> \o SubSeq(padded, cut + 1, Len(padded))

FixedDigits(s, digits) ==
  Minus(s) \o PointAt([i \in 1..Max(FracDigits + 1 - Len(digits), 0) |-> "0"] \o digits,
                      Max(FracDigits + 1, Len(digits)) - FracDigits)

FixedOf(s, N) == FixedDigits(s, IF N = <<>> THEN <<>> ELSE NToDec(N))

Fixed4(x) ==
  IF x.k = "nan" THEN <<"n", "a", "n">>
  ELSE IF x.k = "inf" THEN Minus(x.s) \o <<"i", "n", "f">>
  ELSE FixedOf(x.s, IF x.e >= 0 THEN NShl(NMulSmall(x.m, 10^FracDigits), x.e)
                    ELSE RoundedMant(NMulSmall(x.m, 10^FracDigits), -x.e, FALSE))

IntText(i) == IF i.raised # "" THEN i ELSE Return(IntStr(i.value.s, i.value.a))

\* Mutant of format_element: every element formatted with .4f
format_element_fixed(x) == Return(Fixed4(x))

\* f"{x:.4f}" if x % 1 != 0 else f"{int(x)}"
format_element(x) ==
  IF ~IsZero(FMod1(x)) THEN Return(Fixed4(x)) ELSE IntText(PyInt(x))

\* ", ".join(parts)
RECURSIVE Join(_, _)
Join(parts, i) ==
  IF i > Len(parts) THEN <<>>
  ELSE (IF i > 1 THEN <<",", " ">> ELSE <<>>) \o parts[i].value \o Join(parts, i + 1)

\* the generator is consumed in order: the first element whose formatting
\* raises ends the call
JoinParts(parts) ==
  IF \E i \in 1..Len(parts) : parts[i].raised # ""
  THEN parts[CHOOSE i \in 1..Len(parts) :
               /\ parts[i].raised # ""
               /\ \A j \in 1..(i - 1) : parts[j].raised = ""]
  ELSE Return(Join(parts, 1))

format_sequence(sequence) ==
  JoinParts([i \in 1..Len(sequence) |-> format_element(sequence[i])])

(***************************************************************************)
(* main: the command-line driver.  The state is that of one run of the    *)
(* script, from the call of parser.parse_args() to the exit of the        *)
(* process.                                                                *)
(***************************************************************************)
VARIABLES
  argv,         \* the command line, as what argparse makes of it
  args,         \* the parsed namespace: num_elements, sum, diff, verify
  build,        \* which sum() the interpreter has (see Builds)
  pc,           \* the source line the run is at
  sequence,     \* the local variable sequence
  is_valid,     \* the local variable is_valid
  calls,        \* the functions called so far, in order
  stdout,       \* the str of each print call so far
  stderr,       \* what was written to standard error
  exc,          \* the exception last raised
  exit_status   \* <<>> while running, <<status>> once the process has exited

vars ==
  <<argv, args, build, pc, sequence, is_valid, calls, stdout, stderr, exc, exit_status>>

\* the largest num_elements and the longest list the model draws
MaxN == 5
MaxLen == 3

F(i) == FromInt(i)
\* 0.1 = 0x1.999999999999ap-4
Tenth == [k |-> "fin", s |-> 0, m |-> <<19661, 6553, 13107, 102>>, e |-> -55]
\* 0.3 = 0x1.3333333333333p-2
ThreeTenths == [k |-> "fin", s |-> 0, m |-> <<13107, 26214, 19660, 153>>, e |-> -54]
\* 1000000.1 = 0x1.e848033333333p+19
Million01 == [k |-> "fin", s |-> 0, m |-> <<13107, 26214, 4608, 244>>, e |-> -33]
\* 9007199254740994.0 = 2^53 + 2
TwoTo53Plus2 == [k |-> "fin", s |-> 0, m |-> <<1, 0, 0, 128>>, e |-> 1]
\* 1e20 = 0x1.5af1d78b58c40p+66
TenTo20 == [k |-> "fin", s |-> 0, m |-> <<22065, 27589, 23281, 2>>, e |-> 20]
\* -3.5
MinusThreeHalf == [k |-> "fin", s |-> 1, m |-> <<7>>, e |-> -1]
\* -0.5
MinusHalf == [k |-> "fin", s |-> 1, m |-> <<1>>, e |-> -1]
\* 5 + 2^-40 = 5.000000000000909
FivePlusEps == [k |-> "fin", s |-> 0, m |-> <<1, 0, 5120>>, e |-> -40]
\* 0.03125 = 2^-5, halfway between 0.0312 and 0.0313
Tie == [k |-> "fin", s |-> 0, m |-> <<1>>, e |-> -5]
\* the int 2^1024, the least power of two that no float holds
TwoTo1024 ==
  [s |-> 0, a |-> [i \in 1..(MaxExp \div LimbBits + 1) |->
                     IF i = MaxExp \div LimbBits + 1 THEN 2^(MaxExp % LimbBits) ELSE 0]]

\* the values of -n, -s and -d that the model draws; type=int accepts an int
\* of any size and type=float accepts "inf"
Counts == {PyLong(i) : i \in -1..MaxN} \cup {TwoTo1024}
Sums == {F(25), F(10), F(7), F(6), Tenth, Million01, TwoTo53Plus2, TenTo20,
         MinusThreeHalf, FInf(0)}
Diffs == {F(2), F(1), F(0), ThreeTenths, MinusHalf}

\* A command line is one that argparse accepts, with the values of its
\* options; one with -h or --help; or one that argparse rejects (a required
\* option missing, a value that int() or float() refuses, an unknown option).
Namespaces == [num_elements : Counts, sum : Sums, diff : Diffs, verify : BOOLEAN]

CommandLines ==
  {[form |-> "accepted", namespace |-> ns] : ns \in Namespaces}
  \cup {[form |-> f, namespace |-> <<>>] : f \in {"help", "rejected"}}

Init ==
  /\ argv \in CommandLines
  /\ args = <<>>
  /\ build \in Builds
  /\ pc = "line96"
  /\ sequence = <<>>
  /\ is_valid = FALSE
  /\ calls = <<>>
  /\ stdout = <<>>
  /\ stderr = <<>>
  /\ exc = Return(<<>>)
  /\ exit_status = <<>>

\* line 96: args = parser.parse_args().  argparse prints the help and exits
\* with status 0 on -h, and prints the usage and an error message to standard
\* error and exits with status 2 on a command line it rejects.
ParseArgs ==
  /\ pc = "line96"
  /\ IF argv.form = "accepted"
     THEN /\ args' = argv.namespace
          /\ pc' = "line99"
          /\ UNCHANGED <<stdout, stderr, exit_status>>
     ELSE /\ pc' = "exited"
          /\ stdout' = IF argv.form = "help" THEN <<<<"help">>>> ELSE stdout
          /\ stderr' = IF argv.form = "help" THEN stderr ELSE <<<<"usage">>, <<"error">>>>
          /\ exit_status' = IF argv.form = "help" THEN <<0>> ELSE <<2>>
          /\ UNCHANGED args
  /\ UNCHANGED <<argv, build, sequence, is_valid, calls, exc>>

\* Mutant of Propagate: the handler of line 111 catches no exception
Propagate_uncaught(e) ==
  /\ exc' = e
  /\ pc' = "exited"
  /\ stderr' = Append(stderr, <<"Traceback", e.raised, e.message>>)
  /\ exit_status' = <<1>>

\* an exception leaves the try block: a ValueError goes to the handler of
\* line 111, any other exception ends the process with a traceback on
\* standard error and status 1
Propagate(e) ==
  /\ exc' = e
  /\ IF e.raised = "ValueError"
     THEN /\ pc' = "line112"
          /\ UNCHANGED <<stderr, exit_status>>
     ELSE /\ pc' = "exited"
          /\ stderr' = Append(stderr, <<"Traceback", e.raised, e.message>>)
          /\ exit_status' = <<1>>

\* line 99: sequence = calculate_arithmetic_sequence(...)
Calculate ==
  /\ pc = "line99"
  /\ \E r \in {calculate_arithmetic_sequence(args.num_elements, args.sum, args.diff)} :
       /\ calls' = Append(calls, "calculate_arithmetic_sequence")
       /\ IF r.raised = ""
          THEN /\ sequence' = r.value
               /\ pc' = "line101"
               /\ UNCHANGED <<stderr, exc, exit_status>>
          ELSE /\ Propagate(r)
               /\ UNCHANGED sequence
  /\ UNCHANGED <<argv, args, build, is_valid, stdout>>

\* line 101: print(f"Arithmetic Sequence ({args.num_elements} elements):")
HeaderLine(n) ==
  <<"Arithmetic Sequence (">> \o IntStr(n.s, n.a) \o <<" elements):">>

PrintHeader ==
  /\ pc = "line101"
  /\ stdout' = Append(stdout, HeaderLine(args.num_elements))
  /\ pc' = "line102"
  /\ UNCHANGED <<argv, args, build, sequence, is_valid, calls, stderr, exc, exit_status>>

\* line 102: print(format_sequence(sequence))
PrintSequence ==
  /\ pc = "line102"
  /\ \E r \in {format_sequence(sequence)} :
       /\ calls' = Append(calls, "format_sequence")
       /\ IF r.raised = ""
          THEN /\ stdout' = Append(stdout, r.value)
               /\ pc' = "line104"
               /\ UNCHANGED <<stderr, exc, exit_status>>
          ELSE /\ Propagate(r)
               /\ UNCHANGED stdout
  /\ UNCHANGED <<argv, args, build, sequence, is_valid>>

\* Mutant of TestVerify: the verification done whether or not -v was given
TestVerify_always ==
  /\ pc = "line104"
  /\ pc' = "line105"
  /\ UNCHANGED <<argv, args, build, sequence, is_valid, calls, stdout, stderr, exc,
                 exit_status>>

\* line 104: if args.verify:
TestVerify ==
  /\ pc = "line104"
  /\ pc' = IF args.verify THEN "line105" ELSE "line115"
  /\ UNCHANGED <<argv, args, build, sequence, is_valid, calls, stdout, stderr, exc,
                 exit_status>>

\* line 105: is_valid = verify_sequence(sequence, args.sum, args.diff)
Verify ==
  /\ pc = "line105"
  /\ is_valid' = verify_sequence(build, sequence, args.sum, args.diff)
  /\ calls' = Append(calls, "verify_sequence")
  /\ pc' = "line106"
  /\ UNCHANGED <<argv, args, build, sequence, stdout, stderr, exc, exit_status>>

\* lines 106-109: the verification block.  repr() of a float is not spelled
\* out: [repr |-> x] stands for the str that repr(x) returns; the indicator
\* is written by the name of its character, U+2713 or U+2717.
VerificationBlock ==
  << <<"\nVerification:">>,
     <<"  Sum: ">> \o Fixed4(PySum(build, sequence))
        \o <<" (expected: ", [repr |-> args.sum], ")">>,
     <<"  Common difference: ", [repr |-> args.diff]>>,
     <<"  Valid: ", IF is_valid THEN "CHECK MARK" ELSE "BALLOT X">> >>

PrintVerification ==
  /\ pc = "line106"
  /\ stdout' = stdout \o VerificationBlock
  /\ pc' = "line115"
  /\ UNCHANGED <<argv, args, build, sequence, is_valid, calls, stderr, exc, exit_status>>

\* lines 111-113: except ValueError as e: print(f"Error: {e}"); return 1
HandleValueError ==
  /\ pc = "line112"
  /\ stdout' = Append(stdout, <<"Error: ", exc.message>>)
  /\ pc' = "exited"
  /\ exit_status' = <<1>>
  /\ UNCHANGED <<argv, args, build, sequence, is_valid, calls, stderr, exc>>

\* Mutant of Return0: a failed verification reported in the exit status
Return0_unless_invalid ==
  /\ pc = "line115"
  /\ pc' = "exited"
  /\ exit_status' = IF args.verify /\ ~is_valid THEN <<1>> ELSE <<0>>
  /\ UNCHANGED <<argv, args, build, sequence, is_valid, calls, stdout, stderr, exc>>

\* line 115: return 0, and exit(main()) of line 119
Return0 ==
  /\ pc = "line115"
  /\ pc' = "exited"
  /\ exit_status' = <<0>>
  /\ UNCHANGED <<argv, args, build, sequence, is_valid, calls, stdout, stderr, exc>>

Next ==
  \/ ParseArgs
  \/ Calculate
  \/ PrintHeader
  \/ PrintSequence
  \/ TestVerify
  \/ Verify
  \/ PrintVerification
  \/ HandleValueError
  \/ Return0

Spec == Init /\ [][Next]_vars

(***************************************************************************)
(* verify_sequence and format_sequence as functions of any list of floats *)
(* of at most MaxLen elements: one call from the state "call".            *)
(***************************************************************************)
RECURSIVE Lists(_, _)
Lists(S, n) ==
  IF n = 0 THEN {<<>>}
  ELSE Lists(S, n - 1) \cup {Append(l, x) : l \in Lists(S, n - 1), x \in S}

VerifyElements == {F(5), F(7), FivePlusEps, FInf(0)}
VerifySums == {F(12), F(15), F(7), F(0)}
VerifyDiffs == {F(2), F(0)}

InitCall(elements, sums, diffs) ==
  /\ argv = <<>>
  /\ stderr = <<>>
  /\ args \in [num_elements : {PyLong(0)}, sum : sums, diff : diffs, verify : {FALSE}]
  /\ build \in Builds
  /\ pc = "call"
  /\ sequence \in Lists(elements, MaxLen)
  /\ is_valid = FALSE
  /\ calls = <<>>
  /\ stdout = <<>>
  /\ exc = Return(<<>>)
  /\ exit_status = <<>>

CallVerify ==
  /\ pc = "call"
  /\ is_valid' = verify_sequence(build, sequence, args.sum, args.diff)
  /\ calls' = Append(calls, "verify_sequence")
  /\ pc' = "returned"
  /\ UNCHANGED <<argv, args, build, sequence, stdout, stderr, exc, exit_status>>

SpecVerify ==
  InitCall(VerifyElements, VerifySums, VerifyDiffs) /\ [][CallVerify]_vars

FormatElements ==
  {F(5), F(0), Tenth, MinusThreeHalf, FivePlusEps, Tie, TenTo20, FInf(1), FNaN}

\* the str returned is kept as the one line of stdout
CallFormat ==
  /\ pc = "call"
  /\ \E r \in {format_sequence(sequence)} :
       /\ exc' = r
       /\ stdout' = IF r.raised = "" THEN <<r.value>> ELSE stdout
  /\ calls' = Append(calls, "format_sequence")
  /\ pc' = "returned"
  /\ UNCHANGED <<argv, args, build, sequence, is_valid, stderr, exit_status>>

SpecFormat == InitCall(FormatElements, {F(0)}, {F(0)}) /\ [][CallFormat]_vars

(***************************************************************************)
(* Exact arithmetic for the statements below: integers as a sign and a    *)
(* magnitude, floats brought to a common exponent.  Nothing is rounded.   *)
(***************************************************************************)
ZAddCmp(p, q, c) ==
  IF p.s = q.s THEN [s |-> p.s, a |-> NAdd(p.a, q.a)]
  ELSE IF c >= 0 THEN [s |-> p.s, a |-> NSub(p.a, q.a)]
  ELSE [s |-> q.s, a |-> NSub(q.a, p.a)]

ZAdd(p, q) == ZAddCmp(p, q, NCmp(p.a, q.a))

\* the integer x / 2^e0 for a finite float x with x.e >= e0
Scaled(x, e0) == [s |-> x.s, a |-> NShl(x.m, x.e - e0)]

RECURSIVE LeastExp(_, _)
LeastExp(seq, i) ==
  IF i > Len(seq) THEN 0 ELSE Min(seq[i].e, LeastExp(seq, i + 1))

RECURSIVE ExactSum(_, _, _)
ExactSum(seq, i, e0) ==
  IF i > Len(seq) THEN [s |-> 0, a |-> <<>>]
  ELSE ZAdd(Scaled(seq[i], e0), ExactSum(seq, i + 1, e0))

AllFinite(seq) == \A i \in 1..Len(seq) : IsFinite(seq[i])

\* | seq[1] + ... + seq[Len(seq)] - target | < 1e-9 in the real numbers
ExactSumCloseAt(seq, target, e0) ==
  NCmp(ZAdd(ExactSum(seq, 1, e0), Scaled(FNeg(target), e0)).a,
       Scaled(Tolerance, e0).a) < 0

ExactSumClose(seq, target) ==
  /\ AllFinite(seq)
  /\ IsFinite(target)
  /\ ExactSumCloseAt(seq, target, Min(Min(LeastExp(seq, 1), target.e), Tolerance.e))

\* | a - b | < 1e-9 in the real numbers
ExactClose(a, b) == ExactSumClose(<<a>>, b)

\* the elements add up to target within 1e-9, both exactly and as the
\* built-in sum() of the interpreter adds them
SumsTo(b, seq, target) ==
  ExactSumClose(seq, target) /\ Close(PySum(b, seq), target)

\* every consecutive difference, exactly and as the float subtraction
\* computes it, is within 1e-9 of d
StepsOf(seq, d) ==
  \A i \in 1..(Len(seq) - 1) :
    /\ ExactSumClose(<<seq[i + 1], FNeg(seq[i])>>, d)
    /\ Close(FSub(seq[i + 1], seq[i]), d)

\* Inputs of moderate magnitude: sum and diff are finite and
\* (1 + |sum| + |diff| * n^2) * (n + 3) <= 2^22.  With u = 2^-53 the rounding
\* errors of lines 22-23 and of sum() then add up to less than
\* u * (|sum| + |diff| * n^2) * (2 * n + 3) < 2^-30 < 1e-9.
ModerateAt(n, A, B, one, limit) ==
  NCmp(NMulSmall(NAdd(NAdd(one, A), NMulSmall(NMulSmall(B, n), n)), n + 3), limit) <= 0

ModerateFrom(n, x, d, e0) ==
  ModerateAt(n, NShl(x.m, x.e - e0), NShl(d.m, d.e - e0), NShl(<<1>>, -e0),
             NShl(<<1>>, 22 - e0))

Moderate(n, x, d) ==
  /\ IsFinite(x)
  /\ IsFinite(d)
  /\ n.s = 0
  /\ Len(n.a) = 1
  /\ ModerateFrom(AsInt(n), x, d, Min(Min(x.e, d.e), 0))

\* calculate_arithmetic_sequence has just returned the sequence
Calculated == pc = "line101"

(***************************************************************************)
(* C1.  As stated: for every count >= 1 and every sum and                 *)
(* commonDifference, the elements of calculate(count, sum,                *)
(* commonDifference) add up to sum within the 1e-9 absolute tolerance.    *)
(* The floats of lines 22-23 cannot keep that for every input: for        *)
(* count = 2, sum = 2^53 + 2, diff = 1 the elements are 2^52 and 2^52 + 1.*)
(***************************************************************************)
\* C1 as stated (for finite sums): the elements add up to sum within 1e-9.
C1_Original ==
  (Calculated /\ IsFinite(args.sum)) => SumsTo(build, sequence, args.sum)

\* C1, amended: for every count >= 1 and every finite sum and diff of moderate
\* magnitude, (1 + |sum| + |diff| * count^2) * (count + 3) <= 2^22, the
\* elements of calculate(count, sum, diff) add up to sum within 1e-9.
C1_SumWithinTolerance ==
  (Calculated /\ Moderate(args.num_elements, args.sum, args.diff))
    => SumsTo(build, sequence, args.sum)

\* count = 3, sum = 0.1, diff = 0.3: no element is exact, the computed sum is
\* not the float 0.1, and the elements still add up to 0.1 within 1e-9
C1_Witness ==
  /\ Calculated
  /\ args.num_elements = PyLong(3) /\ args.sum = Tenth /\ args.diff = ThreeTenths
  /\ Moderate(args.num_elements, args.sum, args.diff)
  /\ SumsTo(build, sequence, args.sum)
  /\ ExactSum(sequence, 1, LeastExp(sequence, 1)) # Scaled(Tenth, LeastExp(sequence, 1))

(***************************************************************************)
(* C2.  As stated: verify(calculate(count, sum, diff), sum, diff) is true *)
(* for every count >= 1 and every sum and diff.  For count = 3,           *)
(* sum = 1e20, diff = 1 the three elements are the same float.            *)
(***************************************************************************)
\* the driver has just called verify_sequence on the calculated sequence
Verified == pc = "line106"

\* C2 as stated (for finite sums): verify of the calculated sequence is true.
C2_Original == (Verified /\ IsFinite(args.sum)) => is_valid

\* C2, amended: verify(calculate(count, sum, diff), sum, diff) is true for
\* every count >= 1 and every finite sum and diff of moderate magnitude,
\* (1 + |sum| + |diff| * count^2) * (count + 3) <= 2^22.
C2_RoundTrip ==
  (Verified /\ Moderate(args.num_elements, args.sum, args.diff)) => is_valid

\* count = 4, sum = 0.1, diff = 0.3 verified: three inexact differences
C2_Witness ==
  /\ Verified
  /\ args.num_elements = PyLong(4) /\ args.sum = Tenth /\ args.diff = ThreeTenths
  /\ Moderate(args.num_elements, args.sum, args.diff)
  /\ is_valid
  /\ \E i \in 1..3 : FSub(sequence[i + 1], sequence[i]) # args.diff

(***************************************************************************)
(* C7.  As stated: for every count >= 2 and every sum and diff, each      *)
(* consecutive difference of calculate(count, sum, diff) equals diff      *)
(* within 1e-9.                                                            *)
(***************************************************************************)
\* C7 as stated (for finite sums): every consecutive difference is within
\* 1e-9 of diff.
C7_Original ==
  (Calculated /\ IsFinite(args.sum)) => StepsOf(sequence, args.diff)

\* C7, amended: for every count >= 2 and every finite sum and diff of moderate
\* magnitude, (1 + |sum| + |diff| * count^2) * (count + 3) <= 2^22, each
\* consecutive difference of calculate(count, sum, diff) is within 1e-9 of diff.
C7_CommonDifference ==
  (Calculated /\ Moderate(args.num_elements, args.sum, args.diff))
    => StepsOf(sequence, args.diff)

\* count = 5, sum = -3.5, diff = 0.3: a consecutive difference is not the float
\* 0.3, and all four are within 1e-9 of it
C7_Witness ==
  /\ Calculated
  /\ args.num_elements = PyLong(5) /\ args.sum = MinusThreeHalf
  /\ args.diff = ThreeTenths
  /\ Moderate(args.num_elements, args.sum, args.diff)
  /\ StepsOf(sequence, args.diff)
  /\ \E i \in 1..4 : FSub(sequence[i + 1], sequence[i]) # args.diff

(***************************************************************************)
(* C3.  As stated: for every count <= 0 and every sum and diff, calculate *)
(* fails with the error "Number of elements must be positive" and         *)
(* produces no sequence; for every count >= 1 it does not fail.  The      *)
(* count is a Python int of any size, and line 22 converts it to a float: *)
(* a count of 2^1024 fails with OverflowError.                            *)
(***************************************************************************)
\* the command line was accepted and parse_args has returned
Parsed == argv.form = "accepted" /\ pc # "line96"

\* the call of line 99 has been made
Called == Len(calls) >= 1

Positive(n) == n.s = 0 /\ n.a # <<>>

\* n < 2^1024 - 2^970, the least int that rounds to 2^1024
ConvertsToFloat(n) ==
  NCmp(n.a, NSub(NShl(<<1>>, MaxExp), NShl(<<1>>, MaxExp - MantBits - 1))) < 0

InvalidArgument == Raise("ValueError", "Number of elements must be positive")

C4_ErrorPath ==
  (Parsed /\ ~Positive(args.num_elements)) =>
    /\ calls \in {<<>>, <<"calculate_arithmetic_sequence">>}
    /\ stderr = <<>>
    /\ IF pc = "exited"
       THEN /\ stdout = << <<"Error: ", "Number of elements must be positive">> >>
            /\ exit_status = <<1>>
       ELSE stdout = <<>> /\ exit_status = <<>>

\* -n -1 -v: ended with the error line and status 1, verify set
C4_Witness ==
  /\ pc = "exited"
  /\ Parsed
  /\ args.num_elements = PyLong(-1)
  /\ args.verify
  /\ stdout = << <<"Error: ", "Number of elements must be positive">> >>
  /\ exit_status = <<1>>

ElementsFrom(seq, first, d) ==
  \A i \in 0..(Len(seq) - 1) : seq[i + 1] = FAdd(first, FMulInt(d, i))

Ints(seq) == [i \in 1..Len(seq) |-> FromInt(seq[i])]

IsPrefix(p, q) == Len(p) <= Len(q) /\ SubSeq(q, 1, Len(p)) = p

IsHeader(line) == Len(line) >= 3 /\ line[1] = "Arithmetic Sequence ("

IsVerificationBlock(lines) ==
  /\ Len(lines) = 4
  /\ lines[1] = <<"\nVerification:">>
  /\ lines[2][1] = "  Sum: "
  /\ lines[3][1] = "  Common difference: "
  /\ lines[4][1] = "  Valid: "

Successful == Parsed /\ exc.raised = "" /\ Called

\* C10: on a run whose calculation succeeded, the first print is the header,
\* the second the formatted sequence, the verifier is called only after both
\* and only with the verify flag, nothing but the verification block follows,
\* and the run ends with the block printed exactly if the flag is set.
C10_OutputOrder ==
  Successful =>
    /\ IsPrefix(calls, <<"calculate_arithmetic_sequence", "format_sequence",
                         "verify_sequence">>)
    /\ Len(stdout) >= 1 => IsHeader(stdout[1])
    /\ Len(stdout) >= 2 => Len(calls) >= 2 /\ stdout[2] = format_sequence(sequence).value
    /\ Len(calls) = 3 => args.verify /\ Len(stdout) >= 2
    /\ Len(stdout) > 2 =>
         Len(calls) = 3 /\ IsVerificationBlock(SubSeq(stdout, 3, Len(stdout)))
    /\ pc = "exited" =>
         /\ Len(stdout) = IF args.verify THEN 6 ELSE 2
         /\ Len(calls) = IF args.verify THEN 3 ELSE 2

\* a run with -v has ended with the header, the sequence and the block
C10_Witness ==
  /\ pc = "exited"
  /\ Successful
  /\ args.verify
  /\ Len(stdout) = 6
  /\ IsHeader(stdout[1])
  /\ IsVerificationBlock(SubSeq(stdout, 3, 6))

(***************************************************************************)
(* C8.  verify(sequence, expectedSum, expectedDiff) is true if and only   *)
(* if |sum(sequence) - expectedSum| < 1e-9 and, when the sequence has 2   *)
(* or more elements, every consecutive difference d satisfies             *)
(* |d - expectedDiff| < 1e-9; for fewer than 2 elements the result does   *)
(* not depend on expectedDiff.                                            *)
(***************************************************************************)
Returned == pc = "returned"

\* C8: the result of verify_sequence is true exactly if sum(sequence) is
\* within 1e-9 of the expected sum and, for 2 or more elements, every
\* consecutive difference is within 1e-9 of the expected difference, the
\* distances taken in the real numbers; for fewer than 2 elements every
\* expected difference gives the same result.
C8_VerifyIff ==
  Returned =>
    /\ is_valid <=>
         /\ ExactClose(PySum(build, sequence), args.sum)
         /\ Len(sequence) >= 2 =>
              \A i \in 1..(Len(sequence) - 1) :
                ExactClose(FSub(sequence[i + 1], sequence[i]), args.diff)
    /\ Len(sequence) < 2 =>
         \A d \in VerifyDiffs \cup {Tenth, MinusHalf, FInf(1), FNaN} :
           verify_sequence(build, sequence, args.sum, d) = is_valid

\* [5.000000000000909, 7] verified against sum 12 and difference 2: neither
\* the sum nor the difference is exact, both are within the tolerance
C8_Witness ==
  /\ Returned
  /\ sequence = <<FivePlusEps, F(7)>>
  /\ args.sum = F(12) /\ args.diff = F(2)
  /\ PySum(build, sequence) # F(12)
  /\ FSub(sequence[2], sequence[1]) # F(2)
  /\ is_valid

(***************************************************************************)
(* C9.  As stated: format(sequence) never fails and renders the elements  *)
(* in order joined by ", ": an element with no fractional remainder as a  *)
(* plain integer literal, every other element with exactly 4 digits after *)
(* the decimal point; the empty sequence renders as the empty string.     *)
(* An infinite or NaN element has x % 1 != 0 and .4f renders it as inf,   *)
(* -inf or nan.                                                           *)
(***************************************************************************)
IsDigit(c) == \E d \in 1..10 : DigitChars[d] = c

DigitValue(c) == (CHOOSE d \in 1..10 : DigitChars[d] = c) - 1

\* the fields of a text between the separators ", "
RECURSIVE SplitFields(_, _, _)
SplitFields(text, i, field) ==
  IF i > Len(text) THEN <<field>>
  ELSE IF text[i] = "," THEN <<field>> \o SplitFields(text, i + 2, <<>>)
  ELSE SplitFields(text, i + 1, Append(field, text[i]))

\* every comma is followed by one space, and there is no other space
WellSeparated(text) ==
  /\ \A i \in 1..Len(text) : text[i] = "," => (i < Len(text) /\ text[i + 1] = " ")
  /\ \A i \in 1..Len(text) : text[i] = " " => (i > 1 /\ text[i - 1] = ",")

\* the natural number that a sequence of decimal digits denotes
RECURSIVE ParseNat(_, _, _)
ParseNat(digits, i, acc) ==
  IF i > Len(digits) THEN acc
  ELSE ParseNat(digits, i + 1,
                IF DigitValue(digits[i]) = 0 THEN NMulSmall(acc, 10)
                ELSE NAdd(NMulSmall(acc, 10), <<DigitValue(digits[i])>>))

AllDigits(t) == Len(t) >= 1 /\ \A i \in 1..Len(t) : IsDigit(t[i])

Unsigned(field) ==
  IF field # <<>> /\ field[1] = "-" THEN Tail(field) ELSE field

Signed(field) == field # <<>> /\ field[1] = "-"

\* a plain integer literal of the value of x
IsIntegerOf(field, x) ==
  /\ AllDigits(Unsigned(field))
  /\ (Len(Unsigned(field)) > 1 => Unsigned(field)[1] # "0")
  /\ ParseNat(Unsigned(field), 1, <<>>) = NShl(x.m, Max(x.e, 0))
  /\ Signed(field) <=> (x.s = 1 /\ x.m # <<>>)

\* digits, a point and exactly 4 digits
HasFourDecimals(t) ==
  /\ Len(t) >= 6
  /\ t[Len(t) - 4] = "."
  /\ AllDigits(SubSeq(t, 1, Len(t) - 5))
  /\ AllDigits(SubSeq(t, Len(t) - 3, Len(t)))

\* | N / 10^4 - m * 2^e | <= 1 / 20000 for e < 0
NearestAt(N, scaled, unit) ==
  IF NCmp(N, scaled) >= 0 THEN NCmp(NMulSmall(NSub(N, scaled), 2), unit) <= 0
  ELSE NCmp(NMulSmall(NSub(scaled, N), 2), unit) <= 0

\* the decimal with 4 fractional digits nearest to x, for a finite x that
\* is not an integer
IsFixedOf(field, x) ==
  /\ HasFourDecimals(Unsigned(field))
  /\ Signed(field) <=> x.s = 1
  /\ NearestAt(NShl(ParseNat(SelectSeq(Unsigned(field), IsDigit), 1, <<>>), -x.e),
               NMulSmall(x.m, 10^FracDigits), NShl(<<1>>, -x.e))

IsWhole(x) == IsFinite(x) /\ (x.m = <<>> \/ x.e >= 0)

\* C9 as stated: no failure, the fields in order separated by ", ", an
\* element with no fractional remainder as an integer literal and every other
\* element with exactly 4 digits after the decimal point, the empty sequence
\* as the empty string.
C9_Original ==
  Returned =>
    /\ exc.raised = ""
    /\ WellSeparated(stdout[1])
    /\ IF sequence = <<>> THEN stdout[1] = <<>>
       ELSE /\ Len(SplitFields(stdout[1], 1, <<>>)) = Len(sequence)
            /\ \A i \in 1..Len(sequence) :
                 IF IsWhole(sequence[i])
                 THEN IsIntegerOf(SplitFields(stdout[1], 1, <<>>)[i], sequence[i])
                 ELSE HasFourDecimals(Unsigned(SplitFields(stdout[1], 1, <<>>)[i]))

FieldOf(field, x) ==
  IF IsWhole(x) THEN IsIntegerOf(field, x)
  ELSE IF IsFinite(x) THEN IsFixedOf(field, x)
  ELSE IF x.k = "nan" THEN field = <<"n", "a", "n">>
  ELSE field = (IF x.s = 1 THEN <<"-">> ELSE <<>>) \o <<"i", "n", "f">>

FieldsOf(fields, seq) ==
  /\ Len(fields) = Len(seq)
  /\ \A i \in 1..Len(seq) : FieldOf(fields[i], seq[i])

\* C9, amended: format(sequence) never fails and renders the elements in
\* sequence order joined by ", ": an element with no fractional remainder as a
\* plain integer literal, every other finite element as the nearest decimal
\* with exactly 4 digits after the decimal point, an infinite or NaN element
\* as inf, -inf or nan; the empty sequence renders as the empty string.
C9_Rendering ==
  Returned =>
    /\ exc.raised = ""
    /\ WellSeparated(stdout[1])
    /\ IF sequence = <<>> THEN stdout[1] = <<>>
       ELSE FieldsOf(SplitFields(stdout[1], 1, <<>>), sequence)

\* [5, 0.1, -3.5] rendered as "5, 0.1000, -3.5000"
C9_Witness ==
  /\ Returned
  /\ sequence = <<F(5), Tenth, MinusThreeHalf>>
  /\ stdout[1] = <<"5", ",", " ", "0", ".", "1", "0", "0", "0", ",", " ",
                   "-", "3", ".", "5", "0", "0", "0">>

====
